---- MODULE Spec2Model ----
(***************************************************************************)
(* A model of the example programs of rust_book_examples:                  *)
(*   02_guessing_game  main (the guessing loop)                            *)
(*   06_branches       main, vanilla_loop, vanilla_while, vanilla_for      *)
(*   13_errors         main, the file demos, read_username_*, Guess        *)
(*   17_testing        add_two, internal_adder, Guess, greeting,           *)
(*                     Rectangle::can_hold                                 *)
(*   09_structs        Rectangle::can_hold                                 *)
(*   14_generics       largest_i32, largest_char, largest                  *)
(*   15_traits         mylib::largest                                      *)
(*   07_ownership      main, mutate                                        *)
(* One behaviour is one (or, for 13_errors, a sequence of) process runs of *)
(* one of the programs; `prog` says which.                                 *)
(***************************************************************************)
EXTENDS Integers, Sequences, FiniteSets, TLC

VARIABLES
    prog,             \* the example program this behaviour runs
    pc,               \* position in the program's entry routine
    panic_msg,        \* the message of the panic that aborted the run, or <<>>
    \* ---- 02_guessing_game
    secret_number,    \* main.rs:9, 0 before it is generated
    line,             \* the String `guess` filled by read_line (a sequence of characters)
    guess,            \* the shadowing `guess: u32`, as the Result of parse
    round_out,        \* the lines printed since the loop body was entered
    congratulations,  \* how many times "Congratulations!" was printed
    eof,              \* stdin is at end of input
    \* ---- 06_branches and 13_errors
    out,              \* the lines printed by this run
    \* ---- 06_branches
    number,           \* main's random number
    counter,          \* vanilla_loop
    result,           \* vanilla_loop
    countdown,        \* vanilla_while's `number`
    index,            \* vanilla_for's `index`
    it,               \* vanilla_for: the position of the iterator of the running for loop
    \* ---- 13_errors
    fs,               \* the files next to Cargo.toml: name -> [exists, contents]
    uncommented,      \* the call of main this run has uncommented, or "none"
    guess_arg,        \* the argument main gives to Guess::new
    io,               \* what the environment does to this run's file operations
    g1,               \* main's Guess, once constructed
    ops,              \* the file operations this run performed, in order
    ret,              \* what read_username_* returned to main
    prev_run,         \* the previous run of the program: what it uncommented and did
    \* ---- 17_testing
    arg_a,            \* first argument of the call
    arg_b,            \* second argument of the call
    overflow_checks,  \* the build profile: debug (and test) builds check arithmetic
    called,           \* the function called
    returned,         \* what it returned, once it has
    \* ---- Rectangle of 17_testing and of 09_structs
    rect_self,        \* the two u32 fields of the receiver, in declaration order
    rect_other,       \* the two u32 fields of the argument
    rect_impl,        \* the crate whose Rectangle::can_hold was called
    holds,            \* what can_hold returned
    \* ---- largest of 14_generics and 15_traits
    list,             \* the slice given to the function (a char is its code point)
    largest_fn,       \* the function called
    largest_ret,      \* what it returned, once it has
    \* ---- greeting of 17_testing
    name_arg,         \* the argument `name`, a sequence of characters
    greeted,          \* the String returned, once it has
    \* ---- 07_ownership
    heap,             \* the String buffers allocated so far, by address
    bind              \* main's variables: what each holds

gameVars == <<secret_number, line, guess, round_out, congratulations, eof>>
brVars == <<number, counter, result, countdown, index, it>>
errVars == <<fs, uncommented, guess_arg, io, g1, ops, ret, prev_run>>
tstVars == <<arg_a, arg_b, overflow_checks, called, returned>>
rectVars == <<rect_self, rect_other, rect_impl, holds>>
lgVars == <<list, largest_fn, largest_ret>>
grVars == <<name_arg, greeted>>
ownVars == <<heap, bind>>
fnVars == <<rectVars, lgVars, grVars, ownVars>>
vars == <<prog, pc, panic_msg, out, gameVars, brVars, errVars, tstVars, fnVars>>

\* what the steps of each program leave alone
notGame == <<out, brVars, errVars, tstVars, fnVars>>
notBranches == <<panic_msg, gameVars, errVars, tstVars, fnVars>>
notErrors == <<gameVars, brVars, tstVars, fnVars>>
notTesting == <<out, gameVars, brVars, errVars, fnVars>>
notRectangles ==
    <<panic_msg, out, gameVars, brVars, errVars, tstVars, lgVars, grVars, ownVars>>
notLargest == <<out, gameVars, brVars, errVars, tstVars, rectVars, grVars, ownVars>>
notGreeting ==
    <<panic_msg, out, gameVars, brVars, errVars, tstVars, rectVars, lgVars, ownVars>>
notOwnership == <<panic_msg, gameVars, brVars, errVars, tstVars, rectVars, lgVars, grVars>>

----------------------------------------------------------------------------
(* Bounds *)

\* longest input line body (before the line terminator) the user types
MaxLineLen == 2

\* how far around the limits 1 and 100 the arguments of Guess::new go
GuessMargin == 1

\* how far from the ends of i32, and from zero, the i32 arguments go
I32Margin == 2

\* the largest small side of a Rectangle
MaxDim == 1

\* the longest list given to the largest functions
MaxListLen == 3

\* the longest name given to greeting, the name of the test apart
MaxNameLen == 2

----------------------------------------------------------------------------
(* Results and panics *)

Ok(v) == [ok |-> TRUE, val |-> v]
Err(e) == [ok |-> FALSE, err |-> e]
NoPanic == <<>>

----------------------------------------------------------------------------
(* 02_guessing_game *)

NL == "\n"
WhiteSpace == {" ", NL}
Digits == {"0", "1", "2", "3", "4", "5", "6", "7", "8", "9"}
DigitVal(c) ==
    CASE c = "0" -> 0 [] c = "1" -> 1 [] c = "2" -> 2 [] c = "3" -> 3
      [] c = "4" -> 4 [] c = "5" -> 5 [] c = "6" -> 6 [] c = "7" -> 7
      [] c = "8" -> 8 [] c = "9" -> 9

\* A u32 is held as two decimal limbs, value = hi * 100000 + lo, because the
\* values above 2^31 - 1 are part of the type.
U32(n) == [hi |-> n \div 100000, lo |-> n % 100000]

\* u32::MAX = 4294967295
U32Max == [hi |-> 42949, lo |-> 67295]

\* a <= b on u32
U32Le(a, b) == a.hi < b.hi \/ (a.hi = b.hi /\ a.lo <= b.lo)

\* a * 10 + d before the range check
MulAdd10(a, d) ==
    [hi |-> a.hi * 10 + (a.lo * 10 + d) \div 100000, lo |-> (a.lo * 10 + d) % 100000]

\* Display for u32: decimal digits, no sign, no leading zeros
Pad5(n) ==
    (IF n < 10 THEN "0000" ELSE IF n < 100 THEN "000" ELSE IF n < 1000 THEN "00"
     ELSE IF n < 10000 THEN "0" ELSE "") \o ToString(n)

U32ToString(a) == IF a.hi = 0 THEN ToString(a.lo) ELSE ToString(a.hi) \o Pad5(a.lo)

\* the characters the user types
Alphabet == {"0", "1", " ", "-", "+", "a"}

RECURSIVE SeqsUpTo(_, _)
SeqsUpTo(S, n) ==
    IF n = 0 THEN {<<>>}
    ELSE LET shorter == SeqsUpTo(S, n - 1)
         IN shorter \cup {Append(s, c) : s \in {t \in shorter : Len(t) = n - 1}, c \in S}

\* digit strings around the limit of u32
LongLines == { <<"4","2","9","4","9","6","7","2","9","5">>,
               <<"4","2","9","4","9","6","7","2","9","6">>,
               <<"5","0">>, <<"1","0","0">>, <<"1","0","1">>, <<" ","7"," ">> }

\* what the user can type before the line terminator
Bodies == SeqsUpTo(Alphabet, MaxLineLen) \cup LongLines

\* str::trim: drop leading and trailing white space
RECURSIVE trim_start(_)
trim_start(s) ==
    IF s # <<>> /\ Head(s) \in WhiteSpace THEN trim_start(Tail(s)) ELSE s

RECURSIVE trim_end(_)
trim_end(s) ==
    IF s # <<>> /\ s[Len(s)] \in WhiteSpace THEN trim_end(SubSeq(s, 1, Len(s) - 1)) ELSE s

trim(s) == trim_end(trim_start(s))

\* the values of u32
U32s == [hi : 0..42949, lo : 0..99999]

\* the digit loop of u32::from_str: checked multiply by 10, checked add
parse_digits[ds \in Seq(STRING), acc \in U32s] ==
    IF ds = <<>> THEN Ok(acc)
    ELSE IF Head(ds) \notin Digits THEN Err("InvalidDigit")
    ELSE IF ~U32Le(MulAdd10(acc, DigitVal(Head(ds))), U32Max) THEN Err("PosOverflow")
    ELSE parse_digits[Tail(ds), MulAdd10(acc, DigitVal(Head(ds)))]

\* str::parse::<u32>: an optional "+", then at least one digit; no "-" for
\* an unsigned type
parse(s) ==
    IF s = <<>> THEN Err("Empty")
    ELSE IF Len(s) = 1 /\ s[1] \in {"+", "-"} THEN Err("InvalidDigit")
    ELSE IF s[1] = "+" THEN parse_digits[Tail(s), U32(0)]
    ELSE parse_digits[s, U32(0)]

\* u32::cmp
cmp(a, b) == IF a = b THEN "Equal" ELSE IF U32Le(a, b) THEN "Less" ELSE "Greater"

NoGuess == Err("none")

GameInit ==
    /\ secret_number = U32(0)
    /\ line = <<>>
    /\ guess = NoGuess
    /\ round_out = <<>>
    /\ congratulations = 0
    /\ eof = FALSE

\* main.rs:7-9  println!("Guess the number!"); gen_range(1, 101)
GameStart ==
    /\ prog = "guessing_game" /\ pc = "start"
    /\ \E n \in 1..100 : secret_number' = U32(n)
    /\ pc' = "prompt"
    /\ UNCHANGED <<prog, notGame, panic_msg, line, guess, round_out, congratulations, eof>>

\* main.rs:19-21  the head of the loop body
Prompt ==
    /\ prog = "guessing_game" /\ pc = "prompt"
    /\ round_out' = <<"Please input your guess">>
    /\ line' = <<>>
    /\ guess' = NoGuess
    /\ pc' = "read"
    /\ UNCHANGED <<prog, notGame, panic_msg, secret_number, congratulations, eof>>

\* main.rs:25-27  read_line(&mut guess).expect(..): a line with its
\* terminator, the rest of the input when it ends without one, nothing
\* (Ok(0)) at end of input
ReadLineOk ==
    /\ prog = "guessing_game" /\ pc = "read"
    /\ \E body \in Bodies, nl \in BOOLEAN :
         /\ eof => (body = <<>> /\ ~nl)
         /\ line' = line \o body \o (IF nl THEN <<NL>> ELSE <<>>)
         /\ eof' = ~nl
    /\ pc' = "parse"
    /\ UNCHANGED <<prog, notGame, panic_msg, secret_number, guess, round_out, congratulations>>

\* main.rs:25-27  read_line fails (input that is not UTF-8): expect panics
ReadLineErr ==
    /\ prog = "guessing_game" /\ pc = "read"
    /\ ~eof
    /\ pc' = "panicked"
    /\ panic_msg' = <<"Failed to read line">>
    /\ UNCHANGED <<prog, notGame, gameVars>>

\* the expect of the first version of the game: a line that does not parse
\* aborts the program
ParseNextAbort(r) == IF r.ok THEN "echo" ELSE "panicked"

\* a break where the continue is: a line that does not parse ends the loop
ParseNextBreak(r) == IF r.ok THEN "echo" ELSE "congrats"

\* main.rs:40-51  match guess.trim().parse() { Ok(num) => num, Err(_) => continue }
ParseNext(r) == IF r.ok THEN "echo" ELSE "prompt"

Parse ==
    /\ prog = "guessing_game" /\ pc = "parse"
    /\ guess' = parse(trim(line))
    /\ pc' = ParseNext(guess')
    /\ UNCHANGED <<prog, notGame, panic_msg, secret_number, line, round_out, congratulations, eof>>

\* main.rs:53  println!("You guessed {}", guess)
Echo ==
    /\ prog = "guessing_game" /\ pc = "echo"
    /\ round_out' = Append(round_out, "You guessed " \o U32ToString(guess.val))
    /\ pc' = "cmp"
    /\ UNCHANGED <<prog, notGame, panic_msg, secret_number, line, guess, congratulations, eof>>

\* the texts of the Less and Greater arms exchanged
CmpLineSwapped(o) ==
    CASE o = "Less" -> "Too big!"
      [] o = "Greater" -> "Too small!"
      [] o = "Equal" -> "You win!"

\* main.rs:55-62  match guess.cmp(&secret_number)
CmpLine(o) ==
    CASE o = "Less" -> "Too small!"
      [] o = "Greater" -> "Too big!"
      [] o = "Equal" -> "You win!"

\* the break moved out of the Equal arm: a guess that is too small ends the loop
CmpNextLess(o) == IF o # "Greater" THEN "congrats" ELSE "prompt"

CmpNext(o) == IF o = "Equal" THEN "congrats" ELSE "prompt"

Compare ==
    /\ prog = "guessing_game" /\ pc = "cmp"
    /\ LET o == cmp(guess.val, secret_number)
       IN /\ round_out' = Append(round_out, CmpLine(o))
          /\ pc' = CmpNext(o)
    /\ UNCHANGED <<prog, notGame, panic_msg, secret_number, line, guess, congratulations, eof>>

\* main.rs:65-66  println!("Congratulations!") and the end of main
Congratulate ==
    /\ prog = "guessing_game" /\ pc = "congrats"
    /\ congratulations' = congratulations + 1
    /\ pc' = "done"
    /\ UNCHANGED <<prog, notGame, panic_msg, secret_number, line, guess, round_out, eof>>

----------------------------------------------------------------------------
(* 06_branches *)

BranchesInit ==
    /\ number = 0
    /\ counter = 0
    /\ result = 0
    /\ countdown = 0
    /\ index = 0
    /\ it = 0

\* the array `a` of vanilla_for, indexed from 0
ForArray(i) == CASE i = 0 -> 10 [] i = 1 -> 20 [] i = 2 -> 30

Parity(n) == IF n % 2 = 0 THEN "even" ELSE "odd"

\* main.rs:7-37  the random number, the if/else chain, the if expression
BranchesMain ==
    /\ prog = "branches" /\ pc = "start"
    /\ \E n \in 0..9 :
         /\ number' = n
         /\ out' = << ToString(n) \o (IF n % 2 = 0 THEN " is even"
                                      ELSE IF n = 5 THEN " is equal to 5"
                                      ELSE " is odd but not 5"),
                      "That random number was " \o Parity(n) >>
    /\ pc' = "vanilla_loop"
    /\ UNCHANGED <<prog, notBranches, counter, result, countdown, index, it>>

\* main.rs:42, 53  vanilla_loop is entered
VanillaLoopEnter ==
    /\ prog = "branches" /\ pc = "vanilla_loop"
    /\ counter' = 0
    /\ pc' = "loop"
    /\ UNCHANGED <<prog, notBranches, out, number, result, countdown, index, it>>

\* main.rs:59-66  one pass of the loop: count, break with counter * 2 at 10
LoopLimit == 10

VanillaLoopBody ==
    /\ prog = "branches" /\ pc = "loop"
    /\ counter' = counter + 1
    /\ IF counter' = LoopLimit
       THEN result' = counter' * 2 /\ pc' = "loop_end"
       ELSE result' = result /\ pc' = "loop"
    /\ UNCHANGED <<prog, notBranches, out, number, countdown, index, it>>

\* main.rs:68-69  the result is printed and asserted
VanillaLoopEnd ==
    /\ prog = "branches" /\ pc = "loop_end"
    /\ out' = Append(out, "vanilla loop result was " \o ToString(result) \o " (expected 20)")
    /\ IF result = 20
       THEN pc' = "vanilla_while" /\ panic_msg' = panic_msg
       ELSE pc' = "panicked" /\ panic_msg' = <<"assertion failed: (left == right)">>
    /\ UNCHANGED <<prog, gameVars, errVars, tstVars, fnVars, brVars>>

\* main.rs:45, 74  vanilla_while is entered
VanillaWhileEnter ==
    /\ prog = "branches" /\ pc = "vanilla_while"
    /\ countdown' = 3
    /\ pc' = "while"
    /\ UNCHANGED <<prog, notBranches, out, number, counter, result, index, it>>

\* main.rs:78-81  one pass of while number != 0
VanillaWhileBody ==
    /\ prog = "branches" /\ pc = "while"
    /\ countdown # 0
    /\ out' = Append(out, ToString(countdown) \o "!")
    /\ countdown' = countdown - 1
    /\ pc' = "while"
    /\ UNCHANGED <<prog, notBranches, number, counter, result, index, it>>

\* main.rs:78, 85-86  the condition fails and the function ends
VanillaWhileEnd ==
    /\ prog = "branches" /\ pc = "while"
    /\ countdown = 0
    /\ out' = out \o <<"LIFTOFF!!!", "After the loop, number was " \o ToString(countdown)>>
    /\ pc' = "vanilla_for"
    /\ UNCHANGED <<prog, notBranches, brVars>>

\* main.rs:48, 97-98  vanilla_for is entered
VanillaForEnter ==
    /\ prog = "branches" /\ pc = "vanilla_for"
    /\ index' = 0
    /\ pc' = "for_while"
    /\ UNCHANGED <<prog, notBranches, out, number, counter, result, countdown, it>>

\* main.rs:100-103  one pass of while index < 3
ForWhileBody ==
    /\ prog = "branches" /\ pc = "for_while"
    /\ index < 3
    /\ out' = Append(out, "(while) index " \o ToString(index) \o " has value "
                          \o ToString(ForArray(index)))
    /\ index' = index + 1
    /\ pc' = "for_while"
    /\ UNCHANGED <<prog, notBranches, number, counter, result, countdown, it>>

\* main.rs:100, 107  the while ends; a.iter() is created
ForWhileEnd ==
    /\ prog = "branches" /\ pc = "for_while"
    /\ ~(index < 3)
    /\ it' = 0
    /\ pc' = "for_iter"
    /\ UNCHANGED <<prog, notBranches, out, number, counter, result, countdown, index>>

\* main.rs:107-109  for element in a.iter()
ForIterBody ==
    /\ prog = "branches" /\ pc = "for_iter"
    /\ it < 3
    /\ out' = Append(out, "(iterator) the value is: " \o ToString(ForArray(it)))
    /\ it' = it + 1
    /\ pc' = "for_iter"
    /\ UNCHANGED <<prog, notBranches, number, counter, result, countdown, index>>

\* main.rs:107, 112  the iterator is exhausted; a.iter().enumerate() is created
ForIterEnd ==
    /\ prog = "branches" /\ pc = "for_iter"
    /\ it = 3
    /\ it' = 0
    /\ pc' = "for_enum"
    /\ UNCHANGED <<prog, notBranches, out, number, counter, result, countdown, index>>

\* main.rs:112-114  for (i, item) in a.iter().enumerate()
ForEnumBody ==
    /\ prog = "branches" /\ pc = "for_enum"
    /\ it < 3
    /\ out' = Append(out, "(enumerator) index " \o ToString(it) \o " has value "
                          \o ToString(ForArray(it)))
    /\ it' = it + 1
    /\ pc' = "for_enum"
    /\ UNCHANGED <<prog, notBranches, number, counter, result, countdown, index>>

\* main.rs:112, 117-118  the enumerator is exhausted; the range 1..5 is created
ForEnumEnd ==
    /\ prog = "branches" /\ pc = "for_enum"
    /\ it = 3
    /\ it' = 1
    /\ out' = Append(out, "Let's print a few numbers using the .. range operator: ")
    /\ pc' = "for_range"
    /\ UNCHANGED <<prog, notBranches, number, counter, result, countdown, index>>

\* main.rs:118-120  for number in 1..5
ForRangeBody ==
    /\ prog = "branches" /\ pc = "for_range"
    /\ it < 5
    /\ out' = Append(out, ToString(it))
    /\ it' = it + 1
    /\ pc' = "for_range"
    /\ UNCHANGED <<prog, notBranches, number, counter, result, countdown, index>>

\* main.rs:118, 121-124  the range is exhausted; vanilla_for and main return
ForRangeEnd ==
    /\ prog = "branches" /\ pc = "for_range"
    /\ ~(it < 5)
    /\ out' = out \o <<"", " NB: 1..5 does not include 5!">>
    /\ pc' = "done"
    /\ UNCHANGED <<prog, notBranches, brVars>>

BranchesNext ==
    \/ BranchesMain
    \/ VanillaLoopEnter
    \/ VanillaLoopBody
    \/ VanillaLoopEnd
    \/ VanillaWhileEnter
    \/ VanillaWhileBody
    \/ VanillaWhileEnd
    \/ VanillaForEnter
    \/ ForWhileBody
    \/ ForWhileEnd
    \/ ForIterBody
    \/ ForIterEnd
    \/ ForEnumBody
    \/ ForEnumEnd
    \/ ForRangeBody
    \/ ForRangeEnd

----------------------------------------------------------------------------
(* 13_errors *)

Files == {"hello.txt", "users.txt", "spam.txt"}

Absent == [exists |-> FALSE, contents |-> ""]
Present(c) == [exists |-> TRUE, contents |-> c]

\* the directory with none of the files
EmptyDir == [n \in Files |-> Absent]

\* what a file holds when it is there before the first run
OldContents == {"old"}

\* the directories the first run can find
Dirs == [Files -> {Absent} \cup {Present(c) : c \in OldContents}]

\* the environment of a run: opening an existing file is refused, creating a
\* file is refused, reading from a readable file fails
NoFaults == [open_denied |-> FALSE, create_denied |-> FALSE, read_fails |-> FALSE]
Envs == [open_denied : BOOLEAN, create_denied : BOOLEAN, read_fails : BOOLEAN]

\* the state a function of 13_errors works on: the directory, the log of
\* file operations, the printed lines, the panic (if any) and, for the
\* functions that return a Result, the value returned
Running(dir) == [fs |-> dir, ops |-> <<>>, out |-> <<>>, panic |-> NoPanic, ret |-> <<>>]

Log(st, op, name, r) ==
    [st EXCEPT !.ops = Append(@, [op |-> op, file |-> name, ok |-> r.ok,
                                  err |-> IF r.ok THEN "" ELSE r.err])]
Emit(st, text) == [st EXCEPT !.out = Append(@, text)]
Panic(st, msg) == [st EXCEPT !.panic = msg]
Return(st, r) == [st EXCEPT !.ret = <<r>>]

\* File::open: a read-only handle
FileOpen(dir, env, name) ==
    IF ~dir[name].exists THEN Err("NotFound")
    ELSE IF env.open_denied THEN Err("PermissionDenied")
    ELSE Ok([file |-> name, mode |-> "read"])

\* a create that hands out a readable handle (as OpenOptions with read(true))
FileCreateReadable(dir, env, name) ==
    IF env.create_denied THEN Err("PermissionDenied")
    ELSE Ok([file |-> name, mode |-> "read"])

\* File::create: a write-only handle on the file, created or truncated
FileCreate(dir, env, name) ==
    IF env.create_denied THEN Err("PermissionDenied")
    ELSE Ok([file |-> name, mode |-> "write"])

Created(dir, name, r) == IF r.ok THEN [dir EXCEPT ![name] = Present("")] ELSE dir

\* Read::read_to_string(&mut buf) on a handle: appends the contents to buf
ReadToString(dir, env, f, buf) ==
    IF f.mode # "read" THEN Err("BadFileDescriptor")
    ELSE IF env.read_fails THEN Err("InvalidData")
    ELSE Ok(buf \o dir[f.file].contents)

\* Write::write_all on a handle
WriteAll(dir, env, f, data) ==
    IF f.mode # "write" THEN Err("BadFileDescriptor") ELSE Ok(data)

Unwrap == "called Result::unwrap() on an Err value"

\* main.rs:24-27  eek: v[101] of a vector of 3
eek(st) ==
    LET v == <<1, 2, 3>>
    IN IF 101 + 1 \in DOMAIN v THEN Return(st, Ok(v[101 + 1]))
       ELSE Panic(st, <<"index out of bounds: the len is 3 but the index is 101">>)

\* main.rs:30-65  demo_io_simple
demo_io_simple(st, env) ==
    LET _f == FileOpen(st.fs, env, "hello.txt")
        s1 == Log(st, "open", "hello.txt", _f)
    IN IF ~_f.ok THEN Panic(s1, <<"Problem opening file", _f.err>>)
       ELSE LET rd == ReadToString(s1.fs, env, _f.val, "")
                s2 == Log(s1, "read", "hello.txt", rd)
            IN IF ~rd.ok THEN Panic(s2, <<Unwrap, rd.err>>)
               ELSE Emit(s2, "File contains: " \o rd.val)

\* main.rs:87-89  the tail of demo_result_smarter, with the file in hand
smarter_read(st, env, f) ==
    LET rd == ReadToString(st.fs, env, f, "")
        s1 == Log(st, "read", "hello.txt", rd)
    IN IF ~rd.ok THEN Panic(s1, <<Unwrap, rd.err>>)
       ELSE Emit(s1, "File contains: " \o rd.val)

\* the match on error.kind() dropped: every failed open goes on to create
demo_result_smarter_any(st, env) ==
    LET f == FileOpen(st.fs, env, "hello.txt")
        s1 == Log(st, "open", "hello.txt", f)
    IN IF f.ok THEN smarter_read(s1, env, f.val)
       ELSE LET fc == FileCreate(s1.fs, env, "hello.txt")
                s2 == Log([s1 EXCEPT !.fs = Created(@, "hello.txt", fc)],
                          "create", "hello.txt", fc)
            IN IF fc.ok THEN smarter_read(s2, env, fc.val)
               ELSE Panic(s2, <<"Tried to create file but there was a problem", fc.err>>)

\* main.rs:68-90  demo_result_smarter
demo_result_smarter(st, env) ==
    LET f == FileOpen(st.fs, env, "hello.txt")
        s1 == Log(st, "open", "hello.txt", f)
    IN IF f.ok THEN smarter_read(s1, env, f.val)
       ELSE IF f.err = "NotFound"
       THEN LET fc == FileCreate(s1.fs, env, "hello.txt")
                s2 == Log([s1 EXCEPT !.fs = Created(@, "hello.txt", fc)],
                          "create", "hello.txt", fc)
            IN IF fc.ok THEN smarter_read(s2, env, fc.val)
               ELSE Panic(s2, <<"Tried to create file but there was a problem", fc.err>>)
       ELSE Panic(s1, <<"There was a problem opening the file", f.err>>)

\* main.rs:93-99  demo_result_expect
demo_result_expect(st, env) ==
    LET f == FileOpen(st.fs, env, "spam.txt")
        s1 == Log(st, "open", "spam.txt", f)
    IN IF ~f.ok THEN Panic(s1, <<"spam spam spam spam", f.err>>)
       ELSE LET w == WriteAll(s1.fs, env, f.val, "eggs")
                s2 == Log(s1, "write", "spam.txt", w)
            IN IF ~w.ok THEN Panic(s2, <<"Won't get here - won't see this message", w.err>>)
               ELSE s2

\* main.rs:104-126  read_username_verbose: two explicit matches
read_username_verbose(st, env) ==
    LET f == FileOpen(st.fs, env, "users.txt")
        s1 == Log(st, "open", "users.txt", f)
    IN IF ~f.ok THEN Return(s1, Err(f.err))
       ELSE LET s == ""
                rd == ReadToString(s1.fs, env, f.val, s)
                s2 == Log(s1, "read", "users.txt", rd)
            IN IF rd.ok THEN Return(s2, Ok(rd.val))
               ELSE Return(s2, Err(rd.err))

\* the conversion `?` applies to the error: From<io::Error> for io::Error
From(e) == e

\* the second `?` left out: the Result of the read is dropped
read_username_terse_dropped(st, env) ==
    LET f == FileOpen(st.fs, env, "users.txt")
        s1 == Log(st, "open", "users.txt", f)
    IN IF ~f.ok THEN Return(s1, Err(From(f.err)))
       ELSE LET s == ""
                rd == ReadToString(s1.fs, env, f.val, s)
                s2 == Log(s1, "read", "users.txt", rd)
            IN Return(s2, Ok(IF rd.ok THEN rd.val ELSE s))

\* main.rs:131-157  read_username_terse: the same with `?`
read_username_terse(st, env) ==
    LET f == FileOpen(st.fs, env, "users.txt")
        s1 == Log(st, "open", "users.txt", f)
    IN IF ~f.ok THEN Return(s1, Err(From(f.err)))
       ELSE LET s == ""
                rd == ReadToString(s1.fs, env, f.val, s)
                s2 == Log(s1, "read", "users.txt", rd)
            IN IF ~rd.ok THEN Return(s2, Err(From(rd.err)))
               ELSE Return(s2, Ok(rd.val))

\* Result::expect(msg) in main: the Err panics with msg
Expect(st, msg) ==
    IF st.ret[1].ok THEN st ELSE Panic(st, <<msg, st.ret[1].err>>)

\* the lower limit off by one: 0 is accepted
GuessNew13Zero(value) ==
    IF value < 0 \/ value > 100
    THEN Err(<<"Guess value must be between 1 and 100, got", ToString(value)>>)
    ELSE Ok([value |-> value])

\* main.rs:163-186  Guess::new: panics outside 1..=100
GuessNew13(value) ==
    IF value < 1 \/ value > 100
    THEN Err(<<"Guess value must be between 1 and 100, got", ToString(value)>>)
    ELSE Ok([value |-> value])

\* main.rs:183-185  Guess::value
GuessValue(self) == self.value

\* the calls main has commented out
FileDemos == {"demo_io_simple", "demo_result_smarter", "demo_result_expect",
              "read_username_verbose", "read_username_terse"}
Uncommentable == {"none", "panic", "eek"} \cup FileDemos

\* main.rs:191-224  the call `which`, as main writes it
Call(which, st, env) ==
    CASE which = "panic" -> Panic(st, <<"Something has gone terribly terribly wrong">>)
      [] which = "eek" -> eek(st)
      [] which = "demo_io_simple" -> demo_io_simple(st, env)
      [] which = "demo_result_smarter" -> demo_result_smarter(st, env)
      [] which = "demo_result_expect" -> demo_result_expect(st, env)
      [] which = "read_username_verbose" ->
            Expect(read_username_verbose(st, env), "I expect this failed")
      [] which = "read_username_terse" ->
            Expect(read_username_terse(st, env), "I expect this failed... tersely")

\* main.rs:189-224  the announcements of main, each with the call under it
Sections ==
    << [text |-> " ... Error demo module: all demos commented out by default ...",
        call |-> "-"],
       [text |-> "Demo a custom panic! (uncomment next line to see)", call |-> "panic"],
       [text |-> "Demo a native panic! (uncomment next line to see)", call |-> "eek"],
       [text |-> "Demo a simple IO error (uncomment next line to see",
        call |-> "demo_io_simple"],
       [text |-> "Demo a smarter IO error (uncomment next line to see",
        call |-> "demo_result_smarter"],
       [text |-> "Demo the .expect() helper (uncomment next line to see",
        call |-> "demo_result_expect"],
       [text |-> "Demo manual error propagation (uncomment next line to see",
        call |-> "read_username_verbose"],
       [text |-> "Demo terse error propagation with ? (uncomment next line to see",
        call |-> "read_username_terse"] >>

\* every call left uncommented
RECURSIVE RunSectionsAll(_, _, _, _)
RunSectionsAll(st, env, which, i) ==
    IF i > Len(Sections) \/ st.panic # NoPanic THEN st
    ELSE LET s1 == Emit(st, Sections[i].text)
             s2 == IF Sections[i].call \in Uncommentable
                   THEN Call(Sections[i].call, s1, env) ELSE s1
         IN RunSectionsAll(s2, env, which, i + 1)

\* main.rs:189-224  main from section i on, stopping at a panic
RECURSIVE RunSections(_, _, _, _)
RunSections(st, env, which, i) ==
    IF i > Len(Sections) \/ st.panic # NoPanic THEN st
    ELSE LET s1 == Emit(st, Sections[i].text)
             s2 == IF Sections[i].call = which THEN Call(which, s1, env) ELSE s1
         IN RunSections(s2, env, which, i + 1)

ErrorsInit(p) ==
    /\ IF p = "errors" THEN fs \in Dirs ELSE fs = EmptyDir
    /\ uncommented = "none"
    /\ guess_arg = 50
    /\ io = NoFaults
    /\ g1 = <<>>
    /\ ops = <<>>
    /\ ret = <<>>
    /\ prev_run = <<>>

\* the arguments tried for Guess::new: the shipped 50, the commented-out -1
\* and 2000, and the values around both limits
GuessArgs ==
    {50, -1, 2000} \cup ((1 - GuessMargin)..(1 + GuessMargin))
                   \cup ((100 - GuessMargin)..(100 + GuessMargin))

\* A run of the program is started: main as shipped, or with one of its
\* commented-out calls uncommented, or with another argument for Guess::new.
\* The directory is the one the previous run left.
Launch ==
    /\ prog = "errors" /\ pc \in {"start", "done", "panicked"}
    /\ \E u \in Uncommentable, v \in GuessArgs, env \in Envs :
         /\ u = "none" \/ v = 50
         /\ u \in FileDemos \/ env = NoFaults
         /\ uncommented' = u
         /\ guess_arg' = v
         /\ io' = env
    /\ prev_run' = IF pc = "start" THEN <<>>
                   ELSE <<[uncommented |-> uncommented, ops |-> ops,
                           panicked |-> pc = "panicked"]>>
    /\ out' = <<>>
    /\ ops' = <<>>
    /\ ret' = <<>>
    /\ g1' = <<>>
    /\ panic_msg' = NoPanic
    /\ pc' = "main"
    /\ UNCHANGED <<prog, notErrors, fs>>

\* main.rs:189-224  the announcements and the uncommented call
MainDemos ==
    /\ prog = "errors" /\ pc = "main"
    /\ LET st == RunSections(Running(fs), io, uncommented, 1)
       IN /\ fs' = st.fs
          /\ ops' = st.ops
          /\ out' = st.out
          /\ ret' = st.ret
          /\ panic_msg' = st.panic
          /\ pc' = IF st.panic # NoPanic THEN "panicked" ELSE "guess"
    /\ UNCHANGED <<prog, notErrors, uncommented, guess_arg, io, g1, prev_run>>

\* main.rs:227  let g1 = Guess::new(..)
MainGuessNew ==
    /\ prog = "errors" /\ pc = "guess"
    /\ LET r == GuessNew13(guess_arg)
       IN IF r.ok
          THEN g1' = <<r.val>> /\ pc' = "show_guess" /\ panic_msg' = panic_msg
          ELSE g1' = g1 /\ pc' = "panicked" /\ panic_msg' = r.err
    /\ UNCHANGED <<prog, notErrors, out, fs, uncommented, guess_arg, io, ops, ret, prev_run>>

\* main.rs:228-236  the value is printed through the getter; main ends
MainShowGuess ==
    /\ prog = "errors" /\ pc = "show_guess"
    /\ out' = out \o <<"Guess value is: " \o ToString(GuessValue(g1[1])),
                       "... Error demo module complete ...">>
    /\ pc' = "done"
    /\ UNCHANGED <<prog, notErrors, panic_msg, errVars>>

ErrorsNext ==
    \/ Launch
    \/ MainDemos
    \/ MainGuessNew
    \/ MainShowGuess

----------------------------------------------------------------------------
(* 17_testing *)

\* i32::MAX and i32::MIN
I32Max == 2147483647
I32Min == -I32Max - 1

\* the i32 arguments tried: around both ends of the type, around zero, and
\* around the limits of Guess
I32Samples ==
    {I32Min + k : k \in 0..I32Margin} \cup {I32Max - k : k \in 0..I32Margin}
    \cup {k - I32Margin : k \in 0..(2 * I32Margin)} \cup {1, 2, 99, 100, 101, 200}

\* an i32 as a returned value
I32(v) == [i32 |-> v]

\* i32 `+`: the sum when it is an i32; otherwise a panic in a build with
\* overflow checks (debug, test) and the sum modulo 2^32 in one without
i32_add(x, y, checks) ==
    IF y > 0 /\ x > I32Max - y
    THEN IF checks THEN Err(<<"attempt to add with overflow">>)
         ELSE Ok((x - I32Max - 1) + (y - I32Max - 1))
    ELSE IF y < 0 /\ x < I32Min - y
    THEN IF checks THEN Err(<<"attempt to add with overflow">>)
         ELSE Ok((x + I32Max + 1) + (y + I32Max + 1))
    ELSE Ok(x + y)

\* lib.rs:19-21  internal_adder
internal_adder(x, y, checks) == i32_add(x, y, checks)

\* the wrong constant
add_three(x, checks) == internal_adder(x, 3, checks)

\* lib.rs:14-16  add_two
add_two(x, checks) == internal_adder(x, 2, checks)

\* the two messages swapped
GuessNew17Swapped(value) ==
    IF value < 1
    THEN Err(<<"Guess", "value", "must", "be", "less", "than", "or", "equal", "to",
               "1", "0", "0", ",", "got", ToString(value), ".">>)
    ELSE IF value > 100
    THEN Err(<<"Guess", "value", "must", "be", "greater", "than", "or", "equal", "to",
               "1", ",", "got", ToString(value), ".">>)
    ELSE Ok([value |-> value])

\* lib.rs:40-52  Guess::new: a panic message (as its words, a numeral as its
\* digits) or the Guess
GuessNew17(value) ==
    IF value < 1
    THEN Err(<<"Guess", "value", "must", "be", "greater", "than", "or", "equal", "to",
               "1", ",", "got", ToString(value), ".">>)
    ELSE IF value > 100
    THEN Err(<<"Guess", "value", "must", "be", "less", "than", "or", "equal", "to",
               "1", "0", "0", ",", "got", ToString(value), ".">>)
    ELSE Ok([value |-> value])

\* the substring test of should_panic(expected = ..), on the words
Contains(msg, pat) ==
    \E i \in 1..(Len(msg) - Len(pat) + 1) : SubSeq(msg, i, i + Len(pat) - 1) = pat

TestingInit(p) ==
    /\ IF p = "testing" THEN arg_a \in I32Samples ELSE arg_a = 0
    /\ IF p = "testing" THEN arg_b \in I32Samples ELSE arg_b = 0
    /\ IF p = "testing" THEN overflow_checks \in BOOLEAN ELSE overflow_checks = TRUE
    /\ called = "none"
    /\ returned = <<>>

\* the Result of an i32 operation as the outcome of a call
Boxed(r) == IF r.ok THEN Ok(I32(r.val)) ELSE r

\* the outcome of a call: the value it returned, or the panic
Outcome(fn, r) ==
    /\ called' = fn
    /\ IF r.ok
       THEN returned' = <<r.val>> /\ panic_msg' = panic_msg /\ pc' = "done"
       ELSE returned' = returned /\ panic_msg' = r.err /\ pc' = "panicked"
    /\ UNCHANGED <<prog, notTesting, arg_a, arg_b, overflow_checks>>

\* add_two(arg_a) is called
CallAddTwo ==
    /\ prog = "testing" /\ pc = "start"
    /\ Outcome("add_two", Boxed(add_two(arg_a, overflow_checks)))

\* internal_adder(arg_a, arg_b) is called
CallInternalAdder ==
    /\ prog = "testing" /\ pc = "start"
    /\ Outcome("internal_adder", Boxed(internal_adder(arg_a, arg_b, overflow_checks)))

\* Guess::new(arg_a) is called
CallGuessNew ==
    /\ prog = "testing" /\ pc = "start"
    /\ Outcome("Guess::new", GuessNew17(arg_a))

TestingNext ==
    \/ CallAddTwo
    \/ CallInternalAdder
    \/ CallGuessNew

----------------------------------------------------------------------------
(* Rectangle::can_hold of 17_testing and of 09_structs *)

\* a > b on u32
U32Gt(a, b) == ~U32Le(a, b)

\* 17_testing lib.rs:23-27  struct Rectangle { length: u32, width: u32 }
Rectangle17(length, width) == [length |-> length, width |-> width]

\* 09_structs main.rs  struct Rectangle { width: u32, height: u32 }
Rectangle09(width, height) == [width |-> width, height |-> height]

\* one side compared with >=
can_hold17_ge(self, other) ==
    U32Gt(self.length, other.length) /\ ~U32Gt(other.width, self.width)

\* 17_testing lib.rs:30-32
can_hold17(self, other) ==
    U32Gt(self.length, other.length) /\ U32Gt(self.width, other.width)

\* 09_structs main.rs:82-85
can_hold09(self, other) ==
    U32Gt(self.width, other.width) /\ U32Gt(self.height, other.height)

\* the sides: the small ones and the largest u32
Dims == {U32(n) : n \in 0..MaxDim} \cup {U32Max}

\* the rectangles of 09_structs main (30x50, 10x40, 60x45) and of the tests
\* of 17_testing (8x7, 5x1)
SampleRects == { <<U32(30), U32(50)>>, <<U32(10), U32(40)>>, <<U32(60), U32(45)>>,
                 <<U32(8), U32(7)>>, <<U32(5), U32(1)>> }

RectInputs == (Dims \X Dims) \cup SampleRects

RectanglesInit(p) ==
    /\ IF p = "rectangles" THEN rect_self \in RectInputs ELSE rect_self = <<U32(0), U32(0)>>
    /\ IF p = "rectangles" THEN rect_other \in RectInputs ELSE rect_other = <<U32(0), U32(0)>>
    /\ rect_impl = "none"
    /\ holds = FALSE

\* self.can_hold(&other) with the Rectangle of 17_testing
CallCanHold17 ==
    /\ prog = "rectangles" /\ pc = "start"
    /\ rect_impl' = "17_testing"
    /\ holds' = can_hold17(Rectangle17(rect_self[1], rect_self[2]),
                           Rectangle17(rect_other[1], rect_other[2]))
    /\ pc' = "done"
    /\ UNCHANGED <<prog, notRectangles, rect_self, rect_other>>

\* self.can_hold(&other) with the Rectangle of 09_structs
CallCanHold09 ==
    /\ prog = "rectangles" /\ pc = "start"
    /\ rect_impl' = "09_structs"
    /\ holds' = can_hold09(Rectangle09(rect_self[1], rect_self[2]),
                           Rectangle09(rect_other[1], rect_other[2]))
    /\ pc' = "done"
    /\ UNCHANGED <<prog, notRectangles, rect_self, rect_other>>

RectanglesNext ==
    \/ CallCanHold17
    \/ CallCanHold09

----------------------------------------------------------------------------
(* largest, largest_i32, largest_char of 14_generics; mylib::largest of 15_traits *)

\* list[i] on a slice, i counted from 0: the bounds check of Index
IndexAt(l, i) ==
    IF i < Len(l) THEN Ok(l[i + 1])
    ELSE Err(<<"index out of bounds: the len is " \o ToString(Len(l))
               \o " but the index is " \o ToString(i)>>)

\* for &item in list.iter() { if item > largest { largest = item; } }
\* from position i (counted from 1) on
Scan[l \in Seq(Int), i \in Nat, largest \in Int] ==
    IF i > Len(l) THEN largest
    ELSE Scan[l, i + 1, IF l[i] > largest THEN l[i] ELSE largest]

\* the same loop holding a reference, the position in the list of its target
ScanRef[l \in Seq(Int), i \in Nat, largest \in Nat] ==
    IF i > Len(l) THEN largest
    ELSE ScanRef[l, i + 1, IF l[i] > l[largest] THEN i ELSE largest]

\* 14_generics main.rs:29-39
largest_i32(l) ==
    IF IndexAt(l, 0).ok THEN Ok(Scan[l, 1, IndexAt(l, 0).val]) ELSE IndexAt(l, 0)

\* 14_generics main.rs:43-53
largest_char(l) ==
    IF IndexAt(l, 0).ok THEN Ok(Scan[l, 1, IndexAt(l, 0).val]) ELSE IndexAt(l, 0)

\* 14_generics main.rs:65-75: largest = &list[0], and a &T is returned
largest14(l) ==
    IF IndexAt(l, 0).ok THEN Ok(l[ScanRef[l, 1, 1]]) ELSE IndexAt(l, 0)

\* an empty list answered with T::default()
largest15_default(l) ==
    IF IndexAt(l, 0).ok THEN Ok(Scan[l, 1, IndexAt(l, 0).val]) ELSE Ok(0)

\* 15_traits lib.rs:123-133
largest15(l) ==
    IF IndexAt(l, 0).ok THEN Ok(Scan[l, 1, IndexAt(l, 0).val]) ELSE IndexAt(l, 0)

\* the elements of the small lists
Elems == {-1, 0, 1}

\* the lists of the two main functions; the chars y m z a q by code point
SampleLists == { <<34, 50, 25, 100, 65>>, <<34, 50, 25, 222, 65>>,
                 <<121, 109, 122, 97, 113>> }

Lists == SeqsUpTo(Elems, MaxListLen) \cup SampleLists

LargestInit(p) ==
    /\ IF p = "largest" THEN list \in Lists ELSE list = <<>>
    /\ largest_fn = "none"
    /\ largest_ret = <<>>

\* the outcome of a call of one of the largest functions
LargestOutcome(fn, r) ==
    /\ largest_fn' = fn
    /\ IF r.ok
       THEN largest_ret' = <<r.val>> /\ panic_msg' = panic_msg /\ pc' = "done"
       ELSE largest_ret' = largest_ret /\ panic_msg' = r.err /\ pc' = "panicked"
    /\ UNCHANGED <<prog, notLargest, list>>

CallLargestI32 ==
    /\ prog = "largest" /\ pc = "start"
    /\ LargestOutcome("largest_i32", largest_i32(list))

\* a &[char]: no element is negative
CallLargestChar ==
    /\ prog = "largest" /\ pc = "start"
    /\ \A i \in 1..Len(list) : list[i] >= 0
    /\ LargestOutcome("largest_char", largest_char(list))

CallLargest14 ==
    /\ prog = "largest" /\ pc = "start"
    /\ LargestOutcome("largest", largest14(list))

CallLargest15 ==
    /\ prog = "largest" /\ pc = "start"
    /\ LargestOutcome("mylib::largest", largest15(list))

LargestNext ==
    \/ CallLargestI32
    \/ CallLargestChar
    \/ CallLargest14
    \/ CallLargest15

----------------------------------------------------------------------------
(* greeting of 17_testing *)

\* format! with one argument: the literal text of the template is copied and
\* the placeholder {} is replaced by the argument, which is not scanned again
Format[t \in Seq(STRING), arg \in Seq(STRING)] ==
    IF t = <<>> THEN <<>>
    ELSE IF Len(t) >= 2 /\ t[1] = "{" /\ t[2] = "}" THEN arg \o Format[Tail(Tail(t)), arg]
    ELSE <<Head(t)>> \o Format[Tail(t), arg]

\* a template without the placeholder
greeting_plain(n) == Format[<<"H", "e", "l", "l", "o", "!">>, n]

\* lib.rs:9-11  format!("Hello {}!", name)
greeting(n) == Format[<<"H", "e", "l", "l", "o", " ", "{", "}", "!">>, n]

\* the characters of the names
NameChars == {"a", "l", "{", "}"}

\* the names: the short ones and the one of tests::greeting_contains_name
Names == SeqsUpTo(NameChars, MaxNameLen) \cup {<<"C", "a", "r", "o", "l">>}

GreetingInit(p) ==
    /\ IF p = "greeting" THEN name_arg \in Names ELSE name_arg = <<>>
    /\ greeted = <<>>

\* greeting(name) is called
CallGreeting ==
    /\ prog = "greeting" /\ pc = "start"
    /\ greeted' = greeting(name_arg)
    /\ pc' = "done"
    /\ UNCHANGED <<prog, notGreeting, name_arg>>

GreetingNext == CallGreeting

----------------------------------------------------------------------------
(* 07_ownership *)

\* main's String variables and references
OwnNames == {"foo", "bar", "zug", "qux", "clone", "ack", "murb"}

\* what a variable holds: nothing yet, a String it owns (the address of its
\* buffer), a String that was moved out of it, or a borrow of a String
Unset == [kind |-> "unset", addr |-> 0]
Owner(a) == [kind |-> "owner", addr |-> a]
Moved(a) == [kind |-> "moved", addr |-> a]
Ref(a) == [kind |-> "ref", addr |-> a]
RefMut(a) == [kind |-> "ref_mut", addr |-> a]

\* the String a variable owns or borrows, in heap h under bindings b
Deref(h, b, v) == h[b[v].addr]

\* String::from: a new buffer holding the text
StringFrom(h, text) == [heap |-> Append(h, text), addr |-> Len(h) + 1]

\* a copy of the handle: the same buffer again
StringCloneShallow(h, a) == [heap |-> h, addr |-> a]

\* String::clone: a new buffer with the same contents
StringClone(h, a) == [heap |-> Append(h, h[a]), addr |-> Len(h) + 1]

\* String::push_str through a reference to the String at address a
push_str(h, a, text) == [h EXCEPT ![a] = @ \o text]

\* main.rs:102-109  fn mutate(target: &mut String)
mutate(h, target) == push_str(h, target.addr, "... mutated! ...")

OwnershipInit ==
    /\ heap = <<>>
    /\ bind = [v \in OwnNames |-> Unset]

\* main.rs:76-79  foo is created and moved into bar
OwnMove ==
    /\ prog = "ownership" /\ pc = "start"
    /\ LET s == StringFrom(heap, "Hello, world")
           b == [bind EXCEPT !["foo"] = Moved(s.addr), !["bar"] = Owner(s.addr)]
       IN /\ heap' = s.heap
          /\ bind' = b
          /\ out' = Append(out, "String owned by bar: " \o Deref(s.heap, b, "bar"))
    /\ pc' = "borrow"
    /\ UNCHANGED <<prog, notOwnership>>

\* main.rs:82-90  two shared borrows of bar
OwnBorrow ==
    /\ prog = "ownership" /\ pc = "borrow"
    /\ LET b == [bind EXCEPT !["zug"] = Ref(bind["bar"].addr), !["qux"] = Ref(bind["bar"].addr)]
       IN /\ bind' = b
          /\ out' = out \o
                << "String *borrowed* from bar: " \o Deref(heap, b, "zug"),
                   "Bar is still the owner: " \o Deref(heap, b, "bar"),
                   "String *borrowed* from bar twice in one scope: " \o Deref(heap, b, "qux"),
                   "Yet bar is still the owner: " \o Deref(heap, b, "bar") \o ", bar" >>
    /\ pc' = "clone"
    /\ UNCHANGED <<prog, notOwnership, heap>>

\* main.rs:100  let mut clone = bar.clone()
OwnClone ==
    /\ prog = "ownership" /\ pc = "clone"
    /\ LET c == StringClone(heap, bind["bar"].addr)
       IN /\ heap' = c.heap
          /\ bind' = [bind EXCEPT !["clone"] = Owner(c.addr)]
    /\ pc' = "mutate"
    /\ UNCHANGED <<prog, notOwnership, out>>

\* main.rs:111-112  let ack = &mut clone; mutate(ack)
OwnMutate ==
    /\ prog = "ownership" /\ pc = "mutate"
    /\ LET b == [bind EXCEPT !["ack"] = RefMut(bind["clone"].addr)]
       IN /\ bind' = b
          /\ heap' = mutate(heap, b["ack"])
    /\ pc' = "show_clone"
    /\ UNCHANGED <<prog, notOwnership, out>>

\* main.rs:113  the clone is printed
OwnShowClone ==
    /\ prog = "ownership" /\ pc = "show_clone"
    /\ out' = Append(out, "clone modified via mutable borrow: " \o Deref(heap, bind, "clone"))
    /\ pc' = "murb"
    /\ UNCHANGED <<prog, notOwnership, heap, bind>>

\* main.rs:124-125  a shared borrow of clone and its length
OwnMurb ==
    /\ prog = "ownership" /\ pc = "murb"
    /\ LET b == [bind EXCEPT !["murb"] = Ref(bind["clone"].addr)]
       IN /\ bind' = b
          /\ out' = Append(out, "Murb var is " \o ToString(Len(Deref(heap, b, "murb"))) \o " long")
    /\ pc' = "primitives"
    /\ UNCHANGED <<prog, notOwnership, heap>>

\* main.rs:136-139  the &str x is copied into y, and both are printed
OwnPrimitives ==
    /\ prog = "ownership" /\ pc = "primitives"
    /\ LET x == "blargh"
           y == x
       IN out' = Append(out, "Primitive values have the Copy trait: [\"" \o x \o "\", \"" \o y \o "\"]")
    /\ pc' = "done"
    /\ UNCHANGED <<prog, notOwnership, heap, bind>>

OwnershipNext ==
    \/ OwnMove
    \/ OwnBorrow
    \/ OwnClone
    \/ OwnMutate
    \/ OwnShowClone
    \/ OwnMurb
    \/ OwnPrimitives

----------------------------------------------------------------------------

Programs ==
    {"guessing_game", "branches", "errors", "testing", "rectangles", "largest", "greeting",
     "ownership"}

Init ==
    /\ prog \in Programs
    /\ pc = "start"
    /\ panic_msg = NoPanic
    /\ out = <<>>
    /\ GameInit
    /\ BranchesInit
    /\ ErrorsInit(prog)
    /\ TestingInit(prog)
    /\ RectanglesInit(prog)
    /\ LargestInit(prog)
    /\ GreetingInit(prog)
    /\ OwnershipInit

GameNext ==
    \/ GameStart
    \/ Prompt
    \/ ReadLineOk
    \/ ReadLineErr
    \/ Parse
    \/ Echo
    \/ Compare
    \/ Congratulate

Next ==
    \/ GameNext
    \/ BranchesNext
    \/ ErrorsNext
    \/ TestingNext
    \/ RectanglesNext
    \/ LargestNext
    \/ GreetingNext
    \/ OwnershipNext

Spec == Init /\ [][Next]_vars

\* The two programs with loops, for the questions of termination: a running
\* process does not stop between two steps, and a read of standard input
\* returns.
LoopsInit == Init /\ prog \in {"guessing_game", "branches"}

LoopsNext ==
    \/ GameNext
    \/ BranchesNext

LoopsSpec == LoopsInit /\ [][LoopsNext]_vars /\ WF_vars(LoopsNext)

----------------------------------------------------------------------------
(* Properties *)

Last(s) == s[Len(s)]

Game == prog = "guessing_game"
Branches == prog = "branches"
Errors == prog = "errors"
Testing == prog = "testing"

\* the round in progress read a line that parses to the secret number
GuessedSecret == parse(trim(line)) = Ok(secret_number)

\* control is past the loop of the guessing game
LoopExited == pc \in {"congrats", "done"}

\* C1, in every state: past the loop the line of the last round parses to
\* the secret number and its last print is "You win!"; "Congratulations!" has
\* been printed once when main has ended and not at all before
C1_State ==
    Game =>
        /\ LoopExited => GuessedSecret /\ Last(round_out) = "You win!"
        /\ congratulations = (IF pc = "done" THEN 1 ELSE 0)

\* C1, in every step: a round whose line parses to the secret number goes on
\* to print "You win!" and leave the loop, then main prints and ends, and
\* nothing follows; a round whose line does not, stays in the loop
C1_Step ==
    Game =>
        /\ (pc = "parse" /\ GuessedSecret) => pc' = "echo"
        /\ (pc = "echo" /\ GuessedSecret) => pc' = "cmp"
        /\ (pc = "cmp" /\ GuessedSecret) => pc' = "congrats" /\ Last(round_out') = "You win!"
        /\ (pc \in {"prompt", "read", "parse", "echo", "cmp"} /\ ~GuessedSecret)
              => ~LoopExited' /\ congratulations' = 0
        /\ pc = "congrats" => pc' = "done"
        /\ pc # "done"

\* C1: the guessing loop is left exactly by the round whose input line parses
\* to the secret number, which prints "You win!"; "Congratulations!" is then
\* printed exactly once and main ends; no other round leaves the loop.
C1_WinEndsLoop == [](C1_State) /\ [][C1_Step]_vars

C1_Witness == Game /\ pc = "done" /\ congratulations = 1 /\ Len(line) > 2

\* the entry routine has ended, by returning or by a panic
Terminated == pc \in {"done", "panicked"}

\* C2 as claimed: the entry routine of the guessing game and of 06_branches
\* ends on every execution, whatever the input.
C2_AlwaysTerminates == (Game \/ Branches) => <>Terminated

\* C2 as amended: main of 06_branches runs to its end on every execution;
\* the guessing game ends only by a guess equal to the secret number (it then
\* runs to its end) or by a failed read (it then panics), and a round that
\* finds the input at its end goes back to the prompt.
C2_TerminatesUnlessGuessing ==
    /\ Branches => <>(pc = "done")
    /\ (Game /\ pc = "cmp" /\ GuessedSecret) ~> (pc = "done")
    /\ [](Game /\ pc = "done" => GuessedSecret)
    /\ [](Game /\ pc = "panicked" => panic_msg = <<"Failed to read line">>)
    /\ [][Game /\ pc = "parse" /\ line = <<>> => pc' = "prompt"]_vars

C2_Witness == Game /\ eof /\ pc = "prompt" /\ line = <<>> /\ guess = Err("Empty")

\* the file operation i of this run failed
Failed(i) == ~ops[i].ok

\* the round of the guessing game went back to the prompt after a line that
\* did not parse
RetriedInput == Game /\ pc = "prompt" /\ ~guess.ok /\ guess # NoGuess

\* C3 as claimed: no failed operation is followed by another attempt: no
\* round goes back to the prompt after a line that did not parse, and a failed
\* file operation is the last file operation of its run.
C3_NoRetry ==
    /\ ~RetriedInput
    /\ Errors => \A i \in 1..(Len(ops) - 1) : ~Failed(i)

\* C3 as amended: the same, but for two places: the guessing game goes back to
\* the prompt after a line that does not parse, and demo_result_smarter
\* creates hello.txt after an open that failed with NotFound. Every other
\* failure ends the run: a failed read_line panics before anything is parsed;
\* a failed file operation is the last one of its run and the run panics,
\* read_username_* having returned that very error to main.
C3_NoRetryButTwo ==
    /\ Game /\ pc = "panicked" => panic_msg = <<"Failed to read line">> /\ guess = NoGuess
    /\ Errors =>
         /\ \A i \in 1..(Len(ops) - 1) :
               Failed(i) => /\ uncommented = "demo_result_smarter"
                            /\ i = 1
                            /\ ops[1].op = "open" /\ ops[1].err = "NotFound"
                            /\ ops[2].op = "create"
         /\ (ops # <<>> /\ Failed(Len(ops))) =>
               /\ pc = "panicked"
               /\ Last(panic_msg) = Last(ops).err
               /\ uncommented \in {"read_username_verbose", "read_username_terse"}
                     => ret = <<Err(Last(ops).err)>>

C3_Witness ==
    /\ Errors /\ uncommented = "demo_result_smarter" /\ pc = "panicked"
    /\ Len(ops) = 3 /\ Failed(1) /\ ~Failed(2) /\ Failed(3)

\* the expected substrings of tests::less_than_one and tests::greater_than_100
ExpectedGE1 == <<"value", "must", "be", "greater", "than", "or", "equal", "to", "1">>
ExpectedLE100 == <<"value", "must", "be", "less", "than", "or", "equal", "to", "1", "0", "0">>

\* C4: Guess::new(value) of 17_testing panics with the "greater than or equal
\* to 1" message exactly when value < 1, with the "less than or equal to 100"
\* message exactly when value > 100, and for 1..=100 returns a Guess holding
\* value.
C4_GuessNewPanics ==
    (Testing /\ called = "Guess::new") =>
        /\ (pc = "panicked" /\ Contains(panic_msg, ExpectedGE1)) <=> arg_a < 1
        /\ (pc = "panicked" /\ Contains(panic_msg, ExpectedLE100)) <=> arg_a > 100
        /\ arg_a \in 1..100 => pc = "done" /\ returned = <<[value |-> arg_a]>>
        /\ pc = "panicked" => returned = <<>>

C4_Witness ==
    /\ Testing /\ called = "Guess::new" /\ arg_a = 101 /\ pc = "panicked"
    /\ Contains(panic_msg, ExpectedLE100)

\* main of 13_errors is past its call of Guess::new
PastGuessNew ==
    pc \in {"show_guess", "done"} \/ (pc = "panicked" /\ uncommented = "none")

\* C5, in every state: a Guess that exists holds the argument of new, which
\* is in 1..=100, and value() returns it; after new with an argument outside
\* 1..=100 the run has panicked and there is no Guess.
C5_State ==
    Errors =>
        /\ \A i \in DOMAIN g1 :
              g1[i].value \in 1..100 /\ GuessValue(g1[i]) = guess_arg
        /\ PastGuessNew =>
              IF guess_arg < 1 \/ guess_arg > 100
              THEN pc = "panicked" /\ g1 = <<>>
              ELSE pc # "panicked" /\ Len(g1) = 1
        /\ pc = "done" => out[Len(out) - 1] = "Guess value is: " \o ToString(guess_arg)

\* C5, in every step: a Guess does not change while its run lasts
C5_Step == (Errors /\ g1 # <<>> /\ pc' # "main") => g1' = g1

\* C5: in 13_errors every Guess holds a value in 1..=100, the one given to
\* new; new panics outside that range and constructs nothing; nothing changes
\* the value after construction.
C5_GuessInRange == [](C5_State) /\ [][C5_Step]_vars

C5_Witness == Errors /\ pc = "done" /\ guess_arg = 100 /\ g1 = <<[value |-> 100]>>

\* what the two functions do in the directory and environment of this state
Verbose == read_username_verbose(Running(fs), io)
Terse == read_username_terse(Running(fs), io)

\* the outcome of opening users.txt, and of reading it through handle f
OpenedUsers == FileOpen(fs, io, "users.txt")
ReadUsers(f) == ReadToString(fs, io, f, "")

\* C6: read_username_terse returns what read_username_verbose returns, after
\* the same file operations, for every outcome of the open and of the read:
\* the open error with no read attempted, else the read error, else
\* Ok(contents); and a run of either has returned to main what the other
\* returns.
C6_TerseIsVerbose ==
    Errors =>
        /\ Terse.ret = Verbose.ret
        /\ Terse.ops = Verbose.ops
        /\ Terse.fs = fs /\ Verbose.fs = fs
        /\ IF ~OpenedUsers.ok
           THEN /\ Terse.ret = <<Err(OpenedUsers.err)>>
                /\ Len(Terse.ops) = 1 /\ Terse.ops[1].op = "open"
           ELSE /\ Len(Terse.ops) = 2 /\ Terse.ops[2].op = "read"
                /\ Terse.ret = << IF ReadUsers(OpenedUsers.val).ok
                                  THEN Ok(fs["users.txt"].contents)
                                  ELSE Err(ReadUsers(OpenedUsers.val).err) >>
        /\ (uncommented = "read_username_terse" /\ pc # "main")
              => ret = Verbose.ret /\ ops = Verbose.ops
        /\ (uncommented = "read_username_verbose" /\ pc # "main")
              => ret = Terse.ret /\ ops = Terse.ops

C6_Witness ==
    /\ Errors /\ uncommented = "read_username_terse" /\ pc = "panicked"
    /\ ret = <<Err("InvalidData")>> /\ Len(ops) = 2

\* the file operations of a run of demo_result_smarter that finds no hello.txt
FirstRunOps ==
    << [op |-> "open", file |-> "hello.txt", ok |-> FALSE, err |-> "NotFound"],
       [op |-> "create", file |-> "hello.txt", ok |-> TRUE, err |-> ""],
       [op |-> "read", file |-> "hello.txt", ok |-> FALSE, err |-> "BadFileDescriptor"] >>

\* and of one that finds it
NextRunOps ==
    << [op |-> "open", file |-> "hello.txt", ok |-> TRUE, err |-> ""],
       [op |-> "read", file |-> "hello.txt", ok |-> TRUE, err |-> ""] >>

FirstRun == [uncommented |-> "demo_result_smarter", ops |-> FirstRunOps, panicked |-> TRUE]

\* main is about to call demo_result_smarter, in an environment that refuses
\* nothing
SmarterStarts ==
    Errors /\ pc = "main" /\ uncommented = "demo_result_smarter" /\ io = NoFaults

\* C7, the first run: without hello.txt the call creates it, empty, and
\* panics at the unwrap of the read, before the print
C7_FirstRun ==
    (SmarterStarts /\ ~fs["hello.txt"].exists) =>
        /\ ops' = FirstRunOps
        /\ fs' = [fs EXCEPT !["hello.txt"] = Present("")]
        /\ pc' = "panicked" /\ panic_msg' = <<Unwrap, "BadFileDescriptor">>
        /\ Len(out') = 5

\* C7, the next run: the call opens and reads the file and prints its empty
\* contents, and main goes on
C7_NextRun ==
    (SmarterStarts /\ prev_run = <<FirstRun>>) =>
        /\ fs["hello.txt"] = Present("")
        /\ ops' = NextRunOps
        /\ fs' = fs
        /\ pc' = "guess" /\ panic_msg' = NoPanic
        /\ out'[6] = "File contains: "

\* C7: starting without hello.txt, the first run of demo_result_smarter
\* creates the file and panics at the unwrap of the read; the next run opens
\* it, reads it and prints its empty contents without a panic.
C7_SecondRunWorks == [][C7_FirstRun /\ C7_NextRun]_vars

C7_Witness ==
    /\ Errors /\ uncommented = "demo_result_smarter" /\ io = NoFaults
    /\ prev_run = <<FirstRun>>
    /\ pc = "done" /\ ops = NextRunOps /\ out[6] = "File contains: "

\* C8 as claimed: every run of demo_io_simple panics at the failed open of
\* hello.txt with "Problem opening file", and neither reads the file nor
\* prints "File contains".
C8_SimpleAlwaysPanics ==
    (Errors /\ uncommented = "demo_io_simple" /\ pc \notin {"start", "main"}) =>
        /\ pc = "panicked"
        /\ Head(panic_msg) = "Problem opening file"
        /\ Len(ops) = 1 /\ Failed(1)
        /\ Len(out) = 4

\* the announcements of main, in order
Announcements == [i \in 1..Len(Sections) |-> Sections[i].text]

\* this run is main as shipped
Shipped == Errors /\ pc # "start" /\ uncommented = "none" /\ guess_arg = 50

\* C9, in every state of a run of main as shipped
C9_State ==
    Shipped =>
        /\ pc # "panicked" /\ panic_msg = NoPanic
        /\ ops = <<>>
        /\ pc \in {"guess", "show_guess"} => out = Announcements
        /\ pc \in {"show_guess", "done"} => g1 = <<[value |-> 50]>>
        /\ pc = "done" =>
              out = Announcements \o <<"Guess value is: 50",
                                       "... Error demo module complete ...">>

\* C9: main of 13_errors as shipped never panics and performs no file
\* operation; it prints its announcements, constructs Guess::new(50), prints
\* the value as 50 and ends with "... Error demo module complete ...".
C9_ShippedMainIsQuiet ==
    [](C9_State) /\ [][(Errors /\ uncommented' = "none") => fs' = fs]_vars

C9_Witness == Shipped /\ pc = "done" /\ Len(out) = 10 /\ prev_run # <<>>

\* x + y is an i32
Fits(x, y) == ~(y > 0 /\ x > I32Max - y) /\ ~(y < 0 /\ x < I32Min - y)

\* the call returned the i32 r
Returned(r) == pc = "done" /\ returned = <<I32(r)>>

\* C10 as claimed: add_two(a) returns a + 2 and internal_adder(a, b) returns
\* a + b, for all i32 arguments.
C10_AlwaysTheSum ==
    Testing =>
        /\ called = "add_two" => pc = "done" /\ Fits(arg_a, 2) /\ Returned(arg_a + 2)
        /\ called = "internal_adder"
              => pc = "done" /\ Fits(arg_a, arg_b) /\ Returned(arg_a + arg_b)

\* r is x + y reduced modulo 2^32 into i32, for an x + y outside i32
WrapsTo(r, x, y) ==
    IF y > 0 THEN r < 0 /\ r - I32Min = (x - I32Max - 1) + y
    ELSE r >= 0 /\ (r - I32Max) - 1 = (x - I32Min) + y

\* the outcome of adding x and y
SumOutcome(x, y) ==
    IF Fits(x, y) THEN Returned(x + y)
    ELSE IF overflow_checks
    THEN pc = "panicked" /\ panic_msg = <<"attempt to add with overflow">> /\ returned = <<>>
    ELSE pc = "done" /\ Len(returned) = 1 /\ WrapsTo(returned[1].i32, x, y)

\* C10 as amended: add_two(a) returns a + 2 and internal_adder(a, b) returns
\* a + b whenever that sum is an i32; when it is not, the call panics with
\* "attempt to add with overflow" in a build with overflow checks and returns
\* the sum modulo 2^32 in a build without.
C10_TheSumIfItFits ==
    Testing =>
        /\ called = "add_two" => SumOutcome(arg_a, 2)
        /\ called = "internal_adder" => SumOutcome(arg_a, arg_b)

C10_Witness ==
    /\ Testing /\ called = "add_two" /\ arg_a = I32Max /\ ~overflow_checks
    /\ Returned(I32Min + 1)

\* the line of the round in progress does not parse as a u32
Unparsed == ~parse(trim(line)).ok

\* C14, in every step: the round of a line that does not parse goes back to
\* the prompt with nothing printed after the prompt, no panic and the same
\* secret number, and the next round prompts and reads
C14_Step ==
    Game =>
        /\ (pc = "parse" /\ Unparsed) =>
              /\ pc' = "prompt"
              /\ round_out' = <<"Please input your guess">>
              /\ secret_number' = secret_number
              /\ panic_msg' = NoPanic
        /\ (pc = "prompt" /\ ~guess.ok) =>
              /\ pc' = "read"
              /\ round_out' = <<"Please input your guess">>
              /\ secret_number' = secret_number

\* C14: an input line that does not parse as a u32 (text, an empty line, a
\* negative number) neither crashes nor ends the guessing game: the round
\* prints no "You guessed" and no comparison result, the secret number is
\* unchanged and the loop goes on with the next prompt.
C14_BadLineContinues == [][C14_Step]_vars

C14_Witness ==
    /\ Game /\ pc = "prompt" /\ panic_msg = NoPanic
    /\ line = <<"-", "1", NL>>
    /\ guess = Err("InvalidDigit")
    /\ round_out = <<"Please input your guess">>
    /\ secret_number \in {U32(n) : n \in 1..100}

\* C15: a line that is not a number ends the guessing loop: once a line has
\* failed to parse, control is past the loop or the program is over.
C15_BadLineEndsLoop ==
    (Game /\ ~guess.ok /\ guess # NoGuess) => pc \in {"congrats", "done", "panicked"}

\* the characters of s as one string
RECURSIVE Concat(_)
Concat(s) == IF s = <<>> THEN "" ELSE Head(s) \o Concat(Tail(s))

\* a numeral without its "+" and its leading zeros
RECURSIVE Canonical(_)
Canonical(s) ==
    IF Len(s) > 1 /\ Head(s) \in {"+", "0"} THEN Canonical(Tail(s)) ELSE s

\* the secret numbers there can be
Secrets == {U32(n) : n \in 1..100}

\* what a round prints for its parsed guess
YouGuessed == "You guessed " \o Concat(Canonical(trim(line)))
Verdict ==
    IF guess.val.hi = 0 /\ guess.val.lo < secret_number.lo THEN "Too small!"
    ELSE IF guess.val.hi > 0 \/ guess.val.lo > secret_number.lo THEN "Too big!"
    ELSE "You win!"

\* C16, in every state: the secret number is in 1..=100; a round with a
\* parsed guess has printed the guess before the comparison and the guess and
\* its one verdict after it
C16_State ==
    Game =>
        /\ pc # "start" => secret_number \in Secrets
        /\ (guess.ok /\ pc = "cmp") =>
              round_out = <<"Please input your guess", YouGuessed>>
        /\ (guess.ok /\ pc \in {"prompt", "congrats", "done"}) =>
              round_out = <<"Please input your guess", YouGuessed, Verdict>>

\* C16: the secret number is chosen once in 1..=100 and never changes, and
\* a round with a parsed guess g (0 and values above 100 included) prints
\* "You guessed g" and then exactly one of "Too small!" (g below the secret),
\* "Too big!" (g above it) and "You win!" (g equal to it).
C16_OneVerdict ==
    [](C16_State) /\ [][(Game /\ pc # "start") => secret_number' = secret_number]_vars

C16_Witness ==
    /\ Game /\ pc = "prompt"
    /\ round_out = <<"Please input your guess", "You guessed 4294967295", "Too big!">>

Rectangles == prog = "rectangles"

\* a is strictly above b, limb by limb
Above(a, b) == b.hi < a.hi \/ (b.hi = a.hi /\ b.lo < a.lo)

\* the answer of the called can_hold with receiver and argument exchanged
HoldsReversed ==
    IF rect_impl = "17_testing"
    THEN can_hold17(Rectangle17(rect_other[1], rect_other[2]),
                    Rectangle17(rect_self[1], rect_self[2]))
    ELSE can_hold09(Rectangle09(rect_other[1], rect_other[2]),
                    Rectangle09(rect_self[1], rect_self[2]))

\* C11: can_hold, of the Rectangle of 17_testing and of the one of
\* 09_structs, is true exactly when the receiver is strictly greater than the
\* argument in both dimensions; when a.can_hold(b) is true b.can_hold(a) is
\* false, and no rectangle holds one with its own dimensions.
C11_StrictlyLarger ==
    (Rectangles /\ pc = "done") =>
        /\ holds = (Above(rect_self[1], rect_other[1]) /\ Above(rect_self[2], rect_other[2]))
        /\ holds => ~HoldsReversed
        /\ rect_self = rect_other => ~holds

C11_Witness ==
    /\ Rectangles /\ pc = "done" /\ rect_impl = "17_testing"
    /\ rect_self = <<U32(8), U32(7)>> /\ rect_other = <<U32(5), U32(1)>>
    /\ holds

Largest == prog = "largest"

\* C12: each of largest_i32, largest_char and largest of 14_generics and
\* mylib::largest of 15_traits panics when called with an empty list, and
\* returns a value, an element of the list that no element exceeds, without
\* panic when the list is not empty.
C12_PanicsIffEmpty ==
    (Largest /\ pc # "start") =>
        /\ list = <<>> => (pc = "panicked" /\ panic_msg # NoPanic /\ largest_ret = <<>>)
        /\ list # <<>> =>
              /\ pc = "done" /\ panic_msg = NoPanic /\ Len(largest_ret) = 1
              /\ \E i \in 1..Len(list) : list[i] = largest_ret[1]
              /\ \A i \in 1..Len(list) : list[i] <= largest_ret[1]

C12_Witness ==
    /\ Largest /\ largest_fn = "mylib::largest" /\ list = <<>>
    /\ pc = "panicked"
    /\ panic_msg = <<"index out of bounds: the len is 0 but the index is 0">>

Greeting == prog = "greeting"

\* C13: for every name, greeting(name) is exactly "Hello " followed by the
\* name followed by "!", and so contains the name.
C13_HelloName ==
    (Greeting /\ pc = "done") =>
        /\ greeted = <<"H", "e", "l", "l", "o", " ">> \o name_arg \o <<"!">>
        /\ Contains(greeted, name_arg)

C13_Witness ==
    /\ Greeting /\ pc = "done"
    /\ name_arg = <<"C", "a", "r", "o", "l">>
    /\ greeted = <<"H", "e", "l", "l", "o", " ", "C", "a", "r", "o", "l", "!">>

Ownership == prog = "ownership"

\* mutate(ack) has returned
Mutated == pc \in {"show_clone", "murb", "primitives", "done"}

\* C17, in every state of the ownership demo: up to the call of mutate the
\* clone is "Hello, world"; after it the clone is "Hello, world... mutated!
\* ..." and the String owned by bar is still "Hello, world"
C17_State ==
    Ownership =>
        /\ pc = "mutate" =>
              Deref(heap, bind, "clone") = "Hello, world" /\ Deref(heap, bind, "bar") = "Hello, world"
        /\ Mutated =>
              /\ Deref(heap, bind, "clone") = "Hello, world... mutated! ..."
              /\ Deref(heap, bind, "bar") = "Hello, world"
              /\ Deref(heap, bind, "zug") = "Hello, world"
              /\ bind["bar"].addr # bind["clone"].addr
        /\ pc \in {"murb", "primitives", "done"} =>
              out[6] = "clone modified via mutable borrow: Hello, world... mutated! ..."

\* C17, in the step of mutate(ack): no buffer but the one of the clone changes
C17_Step ==
    (Ownership /\ pc = "mutate") =>
        \A a \in 1..Len(heap) : a # bind["clone"].addr => heap'[a] = heap[a]

\* C17: mutating through the mutable borrow of the clone changes only the
\* clone: after mutate(ack) the clone is "Hello, world" followed by
\* "... mutated! ..." while the String owned by bar is still "Hello, world".
C17_OnlyTheClone == [](C17_State) /\ [][C17_Step]_vars

C17_Witness ==
    /\ Ownership /\ pc = "show_clone"
    /\ bind["ack"] = RefMut(bind["clone"].addr)
    /\ heap = <<"Hello, world", "Hello, world... mutated! ...">>

====
